---- MODULE Spec2Model ----
(***************************************************************************)
(* The lexer of rslox (src/src/lexer/mod.rs) as a state machine.           *)
(*                                                                         *)
(* Bytes are their ASCII codes.  Offsets are 0-based as in the source; the *)
(* byte at offset i of a buffer b is b[i + 1].  The struct Lexer is the    *)
(* record held by the variable lexer; its field panic is not a field of    *)
(* the struct: it holds the message of a panic!() that is unwinding the    *)
(* call, NoPanic while there is none.                                      *)
(***************************************************************************)
EXTENDS Integers, Sequences, FiniteSets, TLC

VARIABLES
  lexer,    \* the Lexer instance: row, col, current, code_bytes, tokens (+ panic)
  pc,       \* "ready" | "loop" | "returned" | "panicked": where the caller is
  result,   \* the token sequence handed to the caller by the last lex call
  calls,    \* number of lex calls made on this instance
  origin,   \* history: the lexer's row and col when the current call began
  spans     \* history: one record per main-loop iteration of the current call

vars == <<lexer, pc, result, calls, origin, spans>>

----------------------------------------------------------------------------
(* Byte constants of the source.                                           *)

NEW_LINE == 10
LINE_FEED == 13
B_SPACE == 32
B_QUOTE == 34
B_HASH == 35
B_OPEN_PAREN == 40
B_CLOSE_PAREN == 41
B_STAR == 42
B_PLUS == 43
B_MINUS == 45
B_DOT == 46
B_ZERO == 48
B_NINE == 57
B_ASSIGN == 61
B_OPEN_BRACE == 123
B_CLOSE_BRACE == 125

\* UTF-8: bytes from 128 belong to multi-byte characters, those in
\* 128..191 are continuation bytes.
UTF8_MULTI == 128
UTF8_CONT_LAST == 191

----------------------------------------------------------------------------
(* Bounds and input sets.                                                  *)

MaxLen == 2        \* sources over every byte class, up to this length
MaxCoreLen == 4    \* sources over CoreBytes, up to this length
MaxReuseLen == 2   \* sources of a second or later call on the same instance
MaxCalls == 2      \* lex calls on one instance

\* Every byte the match names, and three it does not: 'a' (97) and the
\* neighbours of the digit range, '/' (47) and ':' (58).
Bytes ==
  { B_SPACE, NEW_LINE, LINE_FEED, B_PLUS, B_MINUS, B_STAR, B_ASSIGN,
    B_OPEN_BRACE, B_CLOSE_BRACE, B_OPEN_PAREN, B_CLOSE_PAREN, B_QUOTE, B_HASH,
    B_ZERO, B_NINE, B_DOT, 97, 47, 58 }

\* One byte of each arm that looks beyond the current byte, for longer sources.
CoreBytes == { NEW_LINE, B_PLUS, B_QUOTE, B_HASH, B_NINE, B_DOT }

ReuseBytes == { NEW_LINE, B_QUOTE, B_NINE }

SeqsUpTo(S, n) == UNION { [1..k -> S] : k \in 0..n }

\* The source text of src/src/main.rs, and the inputs the specification lists.
MainCode ==
  << 35, 32, 73, 39, 109, 32, 106, 117, 115, 116, 32, 97, 32, 99, 111, 109,
     109, 101, 110, 116, 10, 43, 45, 123, 125, 40, 41, 32, 43, 43, 32, 45, 45,
     32, 34, 97, 109, 101, 101, 114, 34, 32, 32, 34, 106, 104, 97, 110, 34, 32,
     49, 50, 51, 46, 50, 53, 56, 32, 48, 46, 50, 32, 34, 106, 104, 97, 110, 34,
     10, 102, 105, 114, 115, 116, 95, 118, 97, 114, 105, 97, 98, 108, 101, 32,
     61, 32, 51, 46, 49, 52, 10 >>

TestVectors ==
  { MainCode,
    <<43, 32, 43>>, <<45, 32, 45>>, <<45, 45>>, <<123, 125, 40, 41>>,
    <<34, 97, 98, 99, 34>>, <<34, 97, 98, 99>>,
    <<49, 50, 51, 46, 50, 53, 56>>, <<48, 46, 50>>, <<49, 46, 50, 46, 51>>,
    <<35, 32, 99, 111, 109, 109, 101, 110, 116, 10, 43>>,
    <<43, 43, 43, 43, 43>>, <<13, 10, 43>>,
    <<195, 169>>, <<34, 195, 169, 34>>, <<35, 195, 169>>, <<10, 195, 169>>,
    <<43, 195, 169>>,
    <<32, 13, 10, 32, 10, 32>>, <<10, 32, 32, 13>>, <<32, 32, 32, 10, 13>> }

Sources ==
  SeqsUpTo(Bytes, MaxLen) \cup SeqsUpTo(CoreBytes, MaxCoreLen) \cup TestVectors

ReuseSources == SeqsUpTo(ReuseBytes, MaxReuseLen)

----------------------------------------------------------------------------
(* Tokens.                                                                 *)

TokenLocation(row, col) == [row |-> row, col |-> col]

NoPayload == [tag |-> "None", bytes |-> <<>>]
LiteralString(bytes) == [tag |-> "String", bytes |-> bytes]
LiteralNumber(bytes) == [tag |-> "Number", bytes |-> bytes]
OperatorOf(name) == [tag |-> name, bytes |-> <<>>]

TokenOperator(loc, op) == [kind |-> "Operator", loc |-> loc, payload |-> OperatorOf(op)]
TokenOpenBrace(loc) == [kind |-> "OpenBrace", loc |-> loc, payload |-> NoPayload]
TokenCloseBrace(loc) == [kind |-> "CloseBrace", loc |-> loc, payload |-> NoPayload]
TokenOpenParen(loc) == [kind |-> "OpenParen", loc |-> loc, payload |-> NoPayload]
TokenCloseParen(loc) == [kind |-> "CloseParen", loc |-> loc, payload |-> NoPayload]
TokenLiteral(loc, lit) == [kind |-> "Literal", loc |-> loc, payload |-> lit]
TokenEOF(loc) == [kind |-> "EOF", loc |-> loc, payload |-> NoPayload]

----------------------------------------------------------------------------
(* Panics: the message arguments of the two panic!() calls.                *)

NoPanic == [kind |-> "none", character |-> 0, row |-> 0, col |-> 0]
PanicInvalidToken(ch, row, col) ==
  [kind |-> "InvalidCharacter", character |-> ch, row |-> row, col |-> col]
PanicNonTerminatedString(row, col) ==
  [kind |-> "UnterminatedString", character |-> 0, row |-> row, col |-> col]
\* Option::unwrap() on the None of line 193; its message has no position.
PanicUnwrapNone == [kind |-> "UnwrapNone", character |-> 0, row |-> 0, col |-> 0]

\* The panic of the bounds check of code_bytes[index] and of
\* &code_bytes[start..end]; its message has no position.
PanicIndexOutOfBounds == [kind |-> "IndexOutOfBounds", character |-> 0, row |-> 0, col |-> 0]

Panicked(self) == self.panic.kind # "none"

----------------------------------------------------------------------------
(* The methods of Lexer, on a record self.                                 *)

\* The values of the struct Lexer and of its fields.
LocationStruct == [row : Nat, col : Nat]
TokenStruct ==
  [kind : STRING, loc : LocationStruct, payload : [tag : STRING, bytes : Seq(Nat)]]
LexerStruct ==
  [row : Nat, col : Nat, current : Nat, tokens : Seq(TokenStruct), code_bytes : Seq(Nat),
   panic : [kind : STRING, character : Nat, row : Nat, col : Nat]]

new == [row |-> 1, col |-> 1, current |-> 0, tokens |-> <<>>, code_bytes |-> <<>>,
        panic |-> NoPanic]

len(self) == Len(self.code_bytes)

peek(self) == self.code_bytes[(self.current + 1) + 1]

get_current_char_byte(self) == self.code_bytes[self.current + 1]

\* is_eof taking the length itself for an offset inside the source.
is_eof_past_len(self, offset) == self.current + offset > len(self)

is_eof(self, offset) == self.current + offset >= len(self)

\* The bounds checks of code_bytes[index] and of &code_bytes[start..end].
index_in_bounds(self, index) == index < len(self)
range_in_bounds(self, start, end) == start <= end /\ end <= len(self)

index_out_of_bounds(self) == [self EXCEPT !.panic = PanicIndexOutOfBounds]

\* Whether the reads of is_eol (the current byte, unless is_eof(0)) pass
\* their bounds check.
is_eol_in_bounds(self) == is_eof(self, 0) \/ index_in_bounds(self, self.current)

is_eol(self) ==
  /\ ~is_eof(self, 0)
  /\ (get_current_char_byte(self) = NEW_LINE \/ get_current_char_byte(self) = LINE_FEED)

\* advance starting a row without resetting the column.
advance_col_not_reset(self) ==
  IF is_eol(self)
  THEN [self EXCEPT !.row = @ + 1, !.col = @ + 1, !.current = @ + 1]
  ELSE [self EXCEPT !.col = @ + 1, !.current = @ + 1]

advance(self) ==
  IF ~is_eol_in_bounds(self) THEN index_out_of_bounds(self)
  ELSE IF is_eol(self)
  THEN [self EXCEPT !.row = @ + 1, !.col = 1, !.current = @ + 1]
  ELSE [self EXCEPT !.col = @ + 1, !.current = @ + 1]

\* lookup returns its bool and leaves the lexer advanced when it matched.
lookup(self, lookup_char) ==
  IF ~is_eof(self, 1)
  THEN IF ~index_in_bounds(self, self.current + 1)
       THEN [matched |-> FALSE, self |-> index_out_of_bounds(self)]
       ELSE LET lookup_matched == peek(self) = lookup_char
            IN [matched |-> lookup_matched,
                self |-> IF lookup_matched THEN advance(self) ELSE self]
  ELSE [matched |-> FALSE, self |-> self]

\* get_current_token_location reporting the start of the row.
get_current_token_location_row_start(self) == TokenLocation(self.row, 1)

get_current_token_location(self) == TokenLocation(self.row, self.col)

push(self, token) == [self EXCEPT !.tokens = Append(@, token)]

is_digit(character) ==
  (character >= B_ZERO /\ character <= B_NINE) \/ character = B_DOT

\* The while loop of eat_string.
eat_string_loop[self \in LexerStruct] ==
  IF Panicked(self) THEN self
  ELSE IF ~is_eol_in_bounds(self) THEN index_out_of_bounds(self)
  ELSE IF ~is_eof(self, 0) /\ get_current_char_byte(self) # B_QUOTE /\ ~is_eol(self)
  THEN eat_string_loop[advance(self)]
  ELSE self

\* eat_string locating the literal at its opening quote and keeping the
\* closing quote in the payload.
eat_string_located_at_start(self) ==
  LET str_start_col == self.col
      str_start_row == self.row
      s1 == advance(self)
      str_start == s1.current
      s2 == eat_string_loop[s1]
  IN IF s2.current = len(s2) \/ get_current_char_byte(s2) # B_QUOTE
     THEN [s2 EXCEPT !.panic = PanicNonTerminatedString(str_start_row, str_start_col)]
     ELSE push(s2, TokenLiteral(TokenLocation(str_start_row, str_start_col),
                                LiteralString(SubSeq(s2.code_bytes, str_start + 1, s2.current + 1))))

\* eat_string reporting where the scan stopped instead of where the string began.
eat_string_stop_position(self) ==
  LET s1 == advance(self)
      str_start == s1.current
      s2 == eat_string_loop[s1]
  IN IF s2.current = len(s2) \/ get_current_char_byte(s2) # B_QUOTE
     THEN [s2 EXCEPT !.panic = PanicNonTerminatedString(s2.row, s2.col)]
     ELSE push(s2, TokenLiteral(get_current_token_location(s2),
                                LiteralString(SubSeq(s2.code_bytes, str_start + 1, s2.current))))

eat_string(self) ==
  LET str_start_col == self.col
      str_start_row == self.row
      s1 == advance(self)
      str_start == s1.current
      s2 == eat_string_loop[s1]
  IN IF Panicked(s2) THEN s2
     ELSE IF s2.current # len(s2) /\ ~index_in_bounds(s2, s2.current)
     THEN index_out_of_bounds(s2)
     ELSE IF s2.current = len(s2) \/ get_current_char_byte(s2) # B_QUOTE
     THEN [s2 EXCEPT !.panic = PanicNonTerminatedString(str_start_row, str_start_col)]
     ELSE IF ~range_in_bounds(s2, str_start, s2.current) THEN index_out_of_bounds(s2)
     ELSE push(s2, TokenLiteral(get_current_token_location(s2),
                                LiteralString(SubSeq(s2.code_bytes, str_start + 1, s2.current))))

\* The while loop of eat_number; the flag is is_decimal_point_eaten.
eat_number_loop[self \in LexerStruct, is_decimal_point_eaten \in BOOLEAN] ==
  IF Panicked(self) THEN self
  ELSE IF ~is_eof(self, 1) /\ ~index_in_bounds(self, self.current + 1)
  THEN index_out_of_bounds(self)
  ELSE IF ~is_eof(self, 1) /\ is_digit(peek(self))
  THEN IF peek(self) = B_DOT
       THEN IF ~is_decimal_point_eaten
            THEN eat_number_loop[advance(self), TRUE]
            ELSE self
       ELSE eat_number_loop[advance(self), is_decimal_point_eaten]
  ELSE self

\* eat_number slicing num_start..current, one byte short.
eat_number_short_slice(self) ==
  LET num_start_col == self.col
      num_start_row == self.row
      num_start == self.current
      s1 == eat_number_loop[self, FALSE]
  IN push(s1, TokenLiteral(TokenLocation(num_start_row, num_start_col),
                           LiteralNumber(SubSeq(s1.code_bytes, num_start + 1, s1.current))))

eat_number(self) ==
  LET num_start_col == self.col
      num_start_row == self.row
      num_start == self.current
      s1 == eat_number_loop[self, FALSE]
  IN IF Panicked(s1) THEN s1
     ELSE IF ~range_in_bounds(s1, num_start, s1.current + 1) THEN index_out_of_bounds(s1)
     ELSE push(s1, TokenLiteral(TokenLocation(num_start_row, num_start_col),
                                LiteralNumber(SubSeq(s1.code_bytes, num_start + 1, s1.current + 1))))

\* The comment loop taking the line break that ends the comment as well.
RECURSIVE eat_comment_with_line_break(_)
eat_comment_with_line_break(self) ==
  IF ~is_eof(self, 0)
  THEN IF is_eol(self) THEN advance(self) ELSE eat_comment_with_line_break(advance(self))
  ELSE self

eat_hash_single_line_comment_loop[self \in LexerStruct] ==
  IF Panicked(self) THEN self
  ELSE IF ~is_eol_in_bounds(self) THEN index_out_of_bounds(self)
  ELSE IF ~is_eof(self, 0) /\ ~is_eol(self)
  THEN eat_hash_single_line_comment_loop[advance(self)]
  ELSE self

eat_hash_single_line_comment(self) == eat_hash_single_line_comment_loop[self]

----------------------------------------------------------------------------
(* The arms of the match in lex, each up to (not including) the advance    *)
(* that ends the loop body.                                                *)

arm_line_break(self) == advance(self)

arm_plus(self) ==
  LET r == lookup(self, B_PLUS)
  IN IF Panicked(r.self) THEN r.self
     ELSE IF r.matched
     THEN push(r.self, TokenOperator(get_current_token_location(r.self), "Increment"))
     ELSE push(r.self, TokenOperator(get_current_token_location(r.self), "Plus"))

arm_minus(self) ==
  LET r == lookup(self, B_MINUS)
  IN IF Panicked(r.self) THEN r.self
     ELSE IF r.matched
     THEN push(r.self, TokenOperator(get_current_token_location(r.self), "Decrement"))
     ELSE push(r.self, TokenOperator(get_current_token_location(r.self), "Minus"))

arm_single(self) ==
  LET loc == get_current_token_location(self)
      b == get_current_char_byte(self)
  IN CASE b = B_STAR -> push(self, TokenOperator(loc, "Star"))
       [] b = B_OPEN_BRACE -> push(self, TokenOpenBrace(loc))
       [] b = B_CLOSE_BRACE -> push(self, TokenCloseBrace(loc))
       [] b = B_OPEN_PAREN -> push(self, TokenOpenParen(loc))
       [] b = B_CLOSE_PAREN -> push(self, TokenCloseParen(loc))
       [] b = B_ASSIGN -> push(self, TokenOperator(loc, "Assignment"))

arm_invalid(self) ==
  [self EXCEPT !.panic = PanicInvalidToken(get_current_char_byte(self), self.row, self.col)]

SingleBytes ==
  { B_STAR, B_OPEN_BRACE, B_CLOSE_BRACE, B_OPEN_PAREN, B_CLOSE_PAREN, B_ASSIGN }

IsDigitStart(b) == b >= B_ZERO /\ b <= B_NINE

\* The match with NEW_LINE alone in its line-break arm.
arm_of_new_line_only(b) ==
  CASE b = B_SPACE -> "space"
    [] b = NEW_LINE -> "line_break"
    [] b = B_PLUS -> "plus"
    [] b = B_MINUS -> "minus"
    [] b \in SingleBytes -> "single"
    [] b = B_QUOTE -> "string"
    [] b = B_HASH -> "comment"
    [] IsDigitStart(b) -> "number"
    [] OTHER -> "invalid"

\* The match testing is_digit, which takes '.', where it tests b'0'..=b'9'.
arm_of_point_starts_number(b) ==
  CASE b = B_SPACE -> "space"
    [] b = NEW_LINE \/ b = LINE_FEED -> "line_break"
    [] b = B_PLUS -> "plus"
    [] b = B_MINUS -> "minus"
    [] b \in SingleBytes -> "single"
    [] b = B_QUOTE -> "string"
    [] b = B_HASH -> "comment"
    [] is_digit(b) -> "number"
    [] OTHER -> "invalid"

\* Which arm the match takes on byte b.
arm_of(b) ==
  CASE b = B_SPACE -> "space"
    [] b = NEW_LINE \/ b = LINE_FEED -> "line_break"
    [] b = B_PLUS -> "plus"
    [] b = B_MINUS -> "minus"
    [] b \in SingleBytes -> "single"
    [] b = B_QUOTE -> "string"
    [] b = B_HASH -> "comment"
    [] IsDigitStart(b) -> "number"
    [] OTHER -> "invalid"

match_arm(self) ==
  LET a == arm_of(get_current_char_byte(self))
  IN CASE a = "space" -> self
       [] a = "line_break" -> arm_line_break(self)
       [] a = "plus" -> arm_plus(self)
       [] a = "minus" -> arm_minus(self)
       [] a = "single" -> arm_single(self)
       [] a = "string" -> eat_string(self)
       [] a = "comment" -> eat_hash_single_line_comment(self)
       [] a = "number" -> eat_number(self)
       [] a = "invalid" -> arm_invalid(self)

\* str::is_char_boundary on the source text.
is_char_boundary(self, index) ==
  \/ index = 0
  \/ index = len(self)
  \/ /\ index < len(self)
     /\ ~(self.code_bytes[index + 1] >= UTF8_MULTI /\ self.code_bytes[index + 1] <= UTF8_CONT_LAST)

\* Whether code.get(current..current + 1) is Some, so that its unwrap returns.
char_string_is_some(self) ==
  is_char_boundary(self, self.current) /\ is_char_boundary(self, self.current + 1)

unwrap_none(self) == [self EXCEPT !.panic = PanicUnwrapNone]

\* lex rebinding the source without emptying tokens.
lex_reset_keeps_tokens(self, code) ==
  [self EXCEPT !.current = 0, !.code_bytes = code]

\* The statements of lex before its loop.
lex_reset(self, code) ==
  [self EXCEPT !.tokens = <<>>, !.current = 0, !.code_bytes = code]

\* One pass through the loop body: char_string, the match, then the advance
\* after it, which a panic never reaches.
loop_body(self) ==
  LET r == IF char_string_is_some(self) THEN match_arm(self) ELSE unwrap_none(self)
  IN IF Panicked(r) THEN r ELSE advance(r)

\* lex returning without the push of Token::EOF.
lex_finish_no_eof(self) == self

\* The statement after the loop.
lex_finish(self) == push(self, TokenEOF(get_current_token_location(self)))

\* lex as a whole, from the reset to the return or the panic.
RECURSIVE lex_loop(_)
lex_loop(self) ==
  IF Panicked(self) THEN self
  ELSE IF self.current < len(self) THEN lex_loop(loop_body(self))
  ELSE lex_finish(self)

lex(self, code) == lex_loop(lex_reset(self, code))

----------------------------------------------------------------------------
(* The state machine: one action per arm of the loop, one for the call and *)
(* one for the return.                                                     *)

Init ==
  /\ lexer = new
  /\ pc = "ready"
  /\ result = <<>>
  /\ calls = 0
  /\ origin = TokenLocation(1, 1)
  /\ spans = <<>>

InLoop == pc = "loop" /\ lexer.current < len(lexer)

Dispatch(arm) ==
  InLoop /\ char_string_is_some(lexer) /\ arm_of(get_current_char_byte(lexer)) = arm

\* The record of one iteration: its arm, the offset it was dispatched at, the
\* offset it left the cursor at, how many tokens it pushed and how many
\* tokens there were after it.
SpanOf(before, after, arm) ==
  [from |-> before.current, upto |-> after.current, arm |-> arm,
   pushed |-> Len(after.tokens) - Len(before.tokens), ntok |-> Len(after.tokens)]

\* An iteration without the advance that ends the loop body.
EndIteration_no_advance(r, arm) ==
  /\ lexer' = r
  /\ pc' = IF Panicked(r) THEN "panicked" ELSE "loop"
  /\ spans' = Append(spans, SpanOf(lexer, r, arm))
  /\ UNCHANGED <<result, calls, origin>>

\* An iteration that records the failure and goes on scanning.
EndIteration_goes_on(r, arm) ==
  LET after == advance(r)
  IN /\ lexer' = after
     /\ pc' = "loop"
     /\ spans' = Append(spans, SpanOf(lexer, after, arm))
     /\ UNCHANGED <<result, calls, origin>>

\* Ends an iteration whose match left the lexer as r.
EndIteration(r, arm) ==
  LET after == IF Panicked(r) THEN r ELSE advance(r)
  IN /\ lexer' = after
     /\ pc' = IF Panicked(after) THEN "panicked" ELSE "loop"
     /\ spans' = Append(spans, SpanOf(lexer, after, arm))
     /\ UNCHANGED <<result, calls, origin>>

LexCall(code) ==
  /\ pc \in {"ready", "returned"}
  /\ calls < MaxCalls
  /\ lexer' = lex_reset(lexer, code)
  /\ pc' = "loop"
  /\ result' = <<>>
  /\ calls' = calls + 1
  /\ origin' = TokenLocation(lexer.row, lexer.col)
  /\ spans' = <<>>

FirstCall == \E code \in Sources : calls = 0 /\ LexCall(code)

LaterCall == \E code \in ReuseSources : calls > 0 /\ LexCall(code)

SkipSpace == Dispatch("space") /\ EndIteration(lexer, "space")

LineBreak == Dispatch("line_break") /\ EndIteration(arm_line_break(lexer), "line_break")

PlusSign == Dispatch("plus") /\ EndIteration(arm_plus(lexer), "plus")

MinusSign == Dispatch("minus") /\ EndIteration(arm_minus(lexer), "minus")

SingleByteToken == Dispatch("single") /\ EndIteration(arm_single(lexer), "single")

EatString == Dispatch("string") /\ EndIteration(eat_string(lexer), "string")

EatComment ==
  Dispatch("comment") /\ EndIteration(eat_hash_single_line_comment(lexer), "comment")

EatNumber == Dispatch("number") /\ EndIteration(eat_number(lexer), "number")

InvalidToken == Dispatch("invalid") /\ EndIteration(arm_invalid(lexer), "invalid")

CharStringUnwrap ==
  InLoop /\ ~char_string_is_some(lexer) /\ EndIteration(unwrap_none(lexer), "unwrap")

Return ==
  /\ pc = "loop"
  /\ ~(lexer.current < len(lexer))
  /\ lexer' = lex_finish(lexer)
  /\ pc' = "returned"
  /\ result' = lexer'.tokens
  /\ UNCHANGED <<calls, origin, spans>>

Next ==
  \/ FirstCall
  \/ LaterCall
  \/ SkipSpace
  \/ LineBreak
  \/ PlusSign
  \/ MinusSign
  \/ SingleByteToken
  \/ EatString
  \/ EatComment
  \/ EatNumber
  \/ InvalidToken
  \/ CharStringUnwrap
  \/ Return

Spec == Init /\ [][Next]_vars

\* A step of a lex call under way.  lex is synchronous: once called it runs
\* on to its return or its panic, whatever the caller does afterwards.
LexStep ==
  \/ SkipSpace \/ LineBreak \/ PlusSign \/ MinusSign \/ SingleByteToken
  \/ EatString \/ EatComment \/ EatNumber \/ InvalidToken \/ CharStringUnwrap
  \/ Return

FairSpec == Spec /\ WF_vars(LexStep)

----------------------------------------------------------------------------
(* Vocabulary of the properties.                                           *)

Code == lexer.code_bytes
CodeLen == Len(Code)

IsLineBreak(b) == b = NEW_LINE \/ b = LINE_FEED
IsBlank(b) == b = B_SPACE \/ IsLineBreak(b)

SetMax(S) == CHOOSE m \in S : \A x \in S : x <= m
SetMin(S) == CHOOSE m \in S : \A x \in S : m <= x

\* The row and col of the byte at offset i of c, counted from a scanner that
\* stood at `from` on offset 0: every '\n' and every '\r' before i starts a row.
PositionAt(c, from, i) ==
  LET breaks == { k \in 1..i : IsLineBreak(c[k]) }
  IN TokenLocation(from.row + Cardinality(breaks),
                   IF breaks = {} THEN from.col + i ELSE i - SetMax(breaks) + 1)

TruePosition(c, i) == PositionAt(c, TokenLocation(1, 1), i)

\* The sources the specification is about: single-byte characters only.
SingleByteSource(c) == \A k \in DOMAIN c : c[k] < UTF8_MULTI

InSpan(s, i) == s.from <= i /\ i < s.upto

TokenArms == {"plus", "minus", "single", "string", "number"}

LastSpan == spans[Len(spans)]

----------------------------------------------------------------------------
(* C1: on a successful lex of a fresh Scanner every byte that is not a     *)
(* space, a line break or part of a '#' comment lies in the lexeme of      *)
(* exactly one emitted token, tokens being in source order; for a source   *)
(* of punctuation bytes, spaces and line breaks the number of tokens       *)
(* before EndOfInput is the number of punctuation bytes.                   *)

InComment(i) == \E k \in DOMAIN spans : spans[k].arm = "comment" /\ InSpan(spans[k], i)

LexemesOver(i) ==
  { k \in DOMAIN spans : spans[k].arm \in TokenArms /\ spans[k].pushed = 1 /\ InSpan(spans[k], i) }

PunctuationOnly(c) == \A k \in DOMAIN c : c[k] \in SingleBytes \/ IsBlank(c[k])

C1_EveryByteInOneLexeme ==
  (pc = "returned" /\ calls = 1) =>
    /\ \A i \in 0..(CodeLen - 1) :
         (~IsBlank(Code[i + 1]) /\ ~InComment(i)) => Cardinality(LexemesOver(i)) = 1
    /\ \A j, k \in DOMAIN spans :
         (j < k /\ spans[j].pushed = 1 /\ spans[k].pushed = 1) =>
           (spans[j].upto <= spans[k].from /\ spans[j].ntok < spans[k].ntok)
    /\ PunctuationOnly(Code) =>
         Len(result) - 1 = Cardinality({ k \in DOMAIN Code : Code[k] \in SingleBytes })

----------------------------------------------------------------------------
(* C2: every successful lex call returns a sequence with exactly one       *)
(* EndOfInput token, which is its last element, the empty source included. *)

C2_ExactlyOneEndOfInputLast ==
  pc = "returned" =>
    /\ Len(result) >= 1
    /\ result[Len(result)].kind = "EOF"
    /\ \A k \in 1..(Len(result) - 1) : result[k].kind # "EOF"

C2_Witness == pc = "returned" /\ Len(result) >= 3

----------------------------------------------------------------------------
(* C3: on a successful lex of a fresh Scanner the EndOfInput token is at   *)
(* the position just after the last byte: row 1 + line breaks in the       *)
(* source, col 1 + bytes after the last line break.                        *)

C3_EndOfInputAfterLastByte ==
  (pc = "returned" /\ calls = 1 /\ SingleByteSource(Code)) =>
    result[Len(result)].loc = TruePosition(Code, CodeLen)

----------------------------------------------------------------------------
(* C4: lex(s2) on an instance that has completed lex(s1) returns the token *)
(* sequence (kinds, payloads, rows and cols) that lex(s2) returns on a new *)
(* instance.                                                               *)

C4_ReuseSameAsNew ==
  (pc = "returned" /\ calls > 1) => result = lex(new, Code).tokens

----------------------------------------------------------------------------
(* C5: lex never ends in a runtime abort: its outcome is a returned token  *)
(* sequence or an error value returned to the caller.                      *)

C5_NoRuntimeAbort == SingleByteSource(Code) => pc # "panicked"

----------------------------------------------------------------------------
(* C6: a byte outside strings and comments that starts no lexeme (and is   *)
(* not a decimal point inside a number) makes lex fail, and when it is the *)
(* first failure the failure is InvalidCharacter with that byte and the    *)
(* byte's own row and col.                                                 *)

StartsLexeme(b) ==
  \/ IsBlank(b) \/ b \in SingleBytes \/ b \in {B_PLUS, B_MINUS, B_QUOTE, B_HASH}
  \/ IsDigitStart(b)

InsideText(i) ==
  \E k \in DOMAIN spans :
    /\ InSpan(spans[k], i)
    /\ \/ spans[k].arm \in {"string", "comment"}
       \/ spans[k].arm = "number" /\ Code[i + 1] = B_DOT

C6_UnrecognizedByteFails ==
  (calls = 1 /\ SingleByteSource(Code)) =>
    /\ pc = "returned" =>
         \A i \in 0..(CodeLen - 1) : ~StartsLexeme(Code[i + 1]) => InsideText(i)
    /\ (pc = "panicked" /\ LastSpan.arm = "invalid") =>
         LET at == TruePosition(Code, LastSpan.from)
         IN lexer.panic = PanicInvalidToken(Code[LastSpan.from + 1], at.row, at.col)

----------------------------------------------------------------------------
(* C7: an opening quote followed by end of input or by a line break before *)
(* any closing quote makes lex fail with UnterminatedString at the row and *)
(* col of the opening quote, not where the scan stopped; so too when the   *)
(* opening quote is the last byte.                                         *)

\* No '"' follows offset i before the next line break or the end of c.
UnterminatedAt(c, i) ==
  LET stops == { j \in (i + 1)..(Len(c) - 1) : c[j + 1] = B_QUOTE \/ IsLineBreak(c[j + 1]) }
  IN stops = {} \/ IsLineBreak(c[SetMin(stops) + 1])

C7_UnterminatedStringAtOpeningQuote ==
  \A k \in DOMAIN spans :
    (spans[k].arm = "string" /\ UnterminatedAt(Code, spans[k].from)) =>
      LET at == PositionAt(Code, origin, spans[k].from)
      IN /\ pc = "panicked"
         /\ k = Len(spans)
         /\ lexer.panic = PanicNonTerminatedString(at.row, at.col)
         /\ calls = 1 => at = TruePosition(Code, spans[k].from)

C7_Witness ==
  /\ pc = "panicked" /\ calls = 1
  /\ lexer.panic.kind = "UnterminatedString"
  /\ LastSpan.from > 0
  /\ TokenLocation(lexer.panic.row, lexer.panic.col) # get_current_token_location(lexer)

----------------------------------------------------------------------------
(* C8: once a failure is detected the scan stops: no later byte is         *)
(* dispatched, no token is appended, and the caller receives no token      *)
(* sequence, not even the tokens emitted before the failure.               *)

C8_FailureStopsScan ==
  /\ [](Panicked(lexer) => (pc = "panicked" /\ result = <<>>))
  /\ [][Panicked(lexer) => UNCHANGED vars]_vars

C8_Witness ==
  pc = "panicked" /\ Len(lexer.tokens) >= 1 /\ lexer.current + 1 < CodeLen

----------------------------------------------------------------------------
(* C9: '+' followed by '+' is one Increment, any other '+' one Plus, and   *)
(* likewise '-': a maximal run of k '+' gives k \div 2 Increment then      *)
(* k % 2 Plus.                                                             *)

OperatorsOnly(c) == \A k \in DOMAIN c : c[k] \in {B_PLUS, B_MINUS} \/ IsBlank(c[k])

RECURSIVE PairedOperators(_, _)
PairedOperators(c, k) ==
  IF k > Len(c) THEN <<>>
  ELSE IF c[k] \in {B_PLUS, B_MINUS}
       THEN IF k < Len(c) /\ c[k + 1] = c[k]
            THEN <<IF c[k] = B_PLUS THEN "Increment" ELSE "Decrement">>
                   \o PairedOperators(c, k + 2)
            ELSE <<IF c[k] = B_PLUS THEN "Plus" ELSE "Minus">> \o PairedOperators(c, k + 1)
       ELSE PairedOperators(c, k + 1)

C9_OperatorRunsPaired ==
  (pc = "returned" /\ OperatorsOnly(Code)) =>
    [k \in 1..(Len(result) - 1) |-> result[k].payload.tag] = PairedOperators(Code, 1)

----------------------------------------------------------------------------
(* C10: a digit at offset i reached by the main loop gives exactly one     *)
(* NumberLiteral: its payload the longest run from i of digits with at     *)
(* most one decimal point, its position that of the first digit, and the   *)
(* scan resumes at the first byte after the payload.                       *)

IsNumberRun(c, i, m) ==
  /\ \A j \in (i + 1)..(i + m) : IsDigitStart(c[j]) \/ c[j] = B_DOT
  /\ Cardinality({ j \in (i + 1)..(i + m) : c[j] = B_DOT }) <= 1

LongestNumberRun(c, i) == SetMax({ m \in 1..(Len(c) - i) : IsNumberRun(c, i, m) })

C10_NumberLiteralLongestRun ==
  \A k \in DOMAIN spans :
    spans[k].arm = "number" =>
      LET i == spans[k].from
          m == LongestNumberRun(Code, i)
      IN /\ spans[k].pushed = 1
         /\ lexer.tokens[spans[k].ntok] =
              TokenLiteral(PositionAt(Code, origin, i), LiteralNumber(SubSeq(Code, i + 1, i + m)))
         /\ calls = 1 => lexer.tokens[spans[k].ntok].loc = TruePosition(Code, i)
         /\ spans[k].upto = i + m

C10_Witness ==
  \E k \in DOMAIN spans :
    /\ spans[k].arm = "number"
    /\ spans[k].upto - spans[k].from >= 3
    /\ spans[k].upto < CodeLen
    /\ \E j \in (spans[k].from + 1)..spans[k].upto : Code[j] = B_DOT

----------------------------------------------------------------------------
(* C11: when a numeric lexeme is followed by a second decimal point, as in *)
(* "1.2.3", lex emits one NumberLiteral that stops before that point and   *)
(* then emits tokens for the remainder; the fragment is not dropped.       *)

\* Iteration k took a number with a decimal point in it and stopped before
\* another decimal point.
StopsAtSecondPoint(k) ==
  /\ spans[k].arm = "number"
  /\ \E j \in (spans[k].from + 1)..spans[k].upto : Code[j] = B_DOT
  /\ spans[k].upto < CodeLen
  /\ Code[spans[k].upto + 1] = B_DOT

NumberBeforeSecondPoint(k) ==
  /\ spans[k].pushed = 1
  /\ lexer.tokens[spans[k].ntok].payload =
       LiteralNumber(SubSeq(Code, spans[k].from + 1, spans[k].upto))

\* As claimed: the scan goes on past the second point and returns tokens.
C11_TokensForRemainder ==
  \A k \in DOMAIN spans :
    StopsAtSecondPoint(k) =>
      /\ NumberBeforeSecondPoint(k)
      /\ pc # "panicked"

\* As amended: the next iteration fails on the second point.
C11_SecondPointIsInvalidCharacter ==
  \A k \in DOMAIN spans :
    StopsAtSecondPoint(k) =>
      /\ NumberBeforeSecondPoint(k)
      /\ k = Len(spans) => (pc = "loop" /\ lexer.current = spans[k].upto)
      /\ k < Len(spans) =>
           LET at == PositionAt(Code, origin, spans[k].upto)
           IN /\ k + 1 = Len(spans)
              /\ spans[k + 1].from = spans[k].upto
              /\ pc = "panicked"
              /\ lexer.panic = PanicInvalidToken(B_DOT, at.row, at.col)
              /\ result = <<>>

C11_Witness ==
  /\ pc = "panicked"
  /\ Len(spans) >= 2
  /\ StopsAtSecondPoint(Len(spans) - 1)
  /\ Code = <<49, 46, 50, 46, 51>>

----------------------------------------------------------------------------
(* C12: an opening quote at offset i whose first following '"' is at j,    *)
(* with no line break between, gives exactly one StringLiteral: its        *)
(* payload the bytes i+1..j-1 (empty when j = i+1, never holding a quote   *)
(* or a line break), its position that of the closing quote, and the scan  *)
(* resumes at j+1.                                                         *)

\* The offset of the first '"' or line break after offset i of c.
FirstStopAfter(c, i) ==
  SetMin({ j \in (i + 1)..(Len(c) - 1) : c[j + 1] = B_QUOTE \/ IsLineBreak(c[j + 1]) })

C12_StringLiteralBetweenQuotes ==
  \A k \in DOMAIN spans :
    (spans[k].arm = "string" /\ ~UnterminatedAt(Code, spans[k].from)) =>
      LET i == spans[k].from
          j == FirstStopAfter(Code, i)
          token == lexer.tokens[spans[k].ntok]
      IN /\ Code[j + 1] = B_QUOTE
         /\ spans[k].pushed = 1
         /\ token = TokenLiteral(PositionAt(Code, origin, j),
                                 LiteralString([n \in 1..(j - i - 1) |-> Code[i + 1 + n]]))
         /\ calls = 1 => token.loc = TruePosition(Code, j)
         /\ \A n \in DOMAIN token.payload.bytes :
              token.payload.bytes[n] # B_QUOTE /\ ~IsLineBreak(token.payload.bytes[n])
         /\ spans[k].upto = j + 1

C12_Witness ==
  \E k \in DOMAIN spans :
    /\ spans[k].arm = "string"
    /\ spans[k].pushed = 1
    /\ spans[k].upto - spans[k].from >= 3
    /\ spans[k].from > 0
    /\ spans[k].upto < CodeLen

----------------------------------------------------------------------------
(* C13: a '#' comment produces no tokens and does not swallow what follows *)
(* its line break: on a fresh Scanner lex("#" + c + "\n" + rest), c free   *)
(* of line breaks, returns the tokens of lex(rest) with every row one      *)
(* higher; a comment that runs to the end of input yields only EndOfInput. *)

LineBreaksOf(c) == { k \in DOMAIN c : IsLineBreak(c[k]) }

RowsRaised(tokens) ==
  [k \in DOMAIN tokens |-> [tokens[k] EXCEPT !.loc.row = @ + 1]]

C13_CommentThenRest ==
  (calls = 1 /\ pc \in {"returned", "panicked"} /\ CodeLen > 0 /\ Code[1] = B_HASH) =>
    IF LineBreaksOf(Code) = {}
    THEN pc = "returned" /\ Len(result) = 1 /\ result[1].kind = "EOF"
    ELSE LET p == SetMin(LineBreaksOf(Code))
             rest == SubSeq(Code, p + 1, CodeLen)
             alone == lex(new, rest)
         IN Code[p] = NEW_LINE =>
              /\ pc = "panicked" <=> Panicked(alone)
              /\ pc = "panicked" => lexer.panic.kind = alone.panic.kind
              /\ pc = "returned" => result = RowsRaised(alone.tokens)

C13_Witness ==
  /\ calls = 1 /\ pc = "returned"
  /\ CodeLen > 3 /\ Code[1] = B_HASH
  /\ LineBreaksOf(Code) # {}
  /\ SetMin(LineBreaksOf(Code)) > 2
  /\ Code[SetMin(LineBreaksOf(Code))] = NEW_LINE
  /\ Len(result) >= 2

----------------------------------------------------------------------------
(* C14: on an input of spaces, '\n' and '\r' only, the empty input         *)
(* included, lex succeeds and returns exactly one token, EndOfInput.       *)

BlankOnly(c) == \A k \in DOMAIN c : IsBlank(c[k])

C14_BlankSourceOnlyEndOfInput ==
  (calls > 0 /\ BlankOnly(Code)) =>
    /\ pc # "panicked"
    /\ pc = "loop" => lexer.tokens = <<>>
    /\ pc = "returned" => (Len(result) = 1 /\ result[1].kind = "EOF")

C14_Witness ==
  /\ pc = "returned"
  /\ BlankOnly(Code)
  /\ \E i, j, k \in DOMAIN Code : Code[i] = B_SPACE /\ Code[j] = NEW_LINE /\ Code[k] = LINE_FEED

----------------------------------------------------------------------------
(* C15: on a fresh Scanner every token before EndOfInput carries the true  *)
(* position of its anchor byte: its own byte for a single-byte token, the  *)
(* second byte for Increment and Decrement, the closing quote for a        *)
(* string, the first digit for a number; '\n' and '\r' each start a row.   *)

AnchorOf(k) ==
  LET tag == lexer.tokens[spans[k].ntok].payload.tag
  IN CASE tag \in {"Increment", "Decrement"} -> spans[k].from + 1
       [] tag = "String" -> FirstStopAfter(Code, spans[k].from)
       [] OTHER -> spans[k].from

C15_TokenAtAnchorPosition ==
  calls = 1 =>
    \A k \in DOMAIN spans :
      spans[k].pushed = 1 =>
        lexer.tokens[spans[k].ntok].loc = TruePosition(Code, AnchorOf(k))

C15_Witness ==
  /\ calls = 1
  /\ \E k \in DOMAIN spans :
       /\ spans[k].pushed = 1
       /\ lexer.tokens[spans[k].ntok].payload.tag = "Increment"
       /\ lexer.tokens[spans[k].ntok].loc.row = 2

----------------------------------------------------------------------------
(* C16: in every reachable state, during and after any sequence of lex     *)
(* calls, 0 <= cursor <= len(source), also for sources that end with a     *)
(* line break.                                                             *)

C16_CursorWithinSource ==
  SingleByteSource(Code) => (0 <= lexer.current /\ lexer.current <= len(lexer))

----------------------------------------------------------------------------
(* C17: tokens is emptied when a lex call starts and only grows during the *)
(* call: every step leaves it unchanged or appends one token at its end,   *)
(* and no token of an earlier call is in a later call's result.            *)

AppendsAtMostOne(old, now) ==
  \/ now = old
  \/ Len(now) = Len(old) + 1 /\ SubSeq(now, 1, Len(old)) = old

RECURSIVE PushedBy(_)
PushedBy(s) == IF s = <<>> THEN 0 ELSE s[Len(s)].pushed + PushedBy(SubSeq(s, 1, Len(s) - 1))

C17_TokensResetThenAppendOnly ==
  /\ [][IF calls' # calls
        THEN lexer'.tokens = <<>>
        ELSE AppendsAtMostOne(lexer.tokens, lexer'.tokens)]_vars
  /\ [](pc = "returned" => (result = lexer.tokens /\ Len(result) = PushedBy(spans) + 1))

C17_Witness ==
  /\ calls = 2 /\ pc = "returned"
  /\ Len(result) >= 2
  /\ origin.col > 1

----------------------------------------------------------------------------
(* C18: lex terminates on every finite source: each pass through the main  *)
(* loop (and through the loops of the string, number and comment scans,    *)
(* which run inside one pass) moves the cursor forward or ends the scan,   *)
(* so the scan completes or fails after at most len(source) + 1 advances.  *)
(* The cursor starts at 0 and only advance moves it, one byte at a time,   *)
(* so its value is the number of advances made.                            *)

C18_LexTerminates ==
  /\ [][(pc = "loop" /\ pc' = "loop") => lexer'.current > lexer.current]_vars
  /\ [](advance(lexer).current = lexer.current + 1)
  /\ [](lexer.current <= len(lexer) + 1 /\ Len(spans) <= len(lexer))
  /\ (pc = "loop") ~> (pc \in {"returned", "panicked"})

C18_Witness ==
  /\ pc = "returned"
  /\ lexer.current = CodeLen + 1
  /\ Len(spans) >= 2

----------------------------------------------------------------------------
(* C19: in the token sequence returned by lex on a fresh Scanner the       *)
(* recorded positions strictly increase in lexicographic (row, col) order  *)
(* from each token to the next, the final EndOfInput token included.       *)

LocationBefore(a, b) == a.row < b.row \/ (a.row = b.row /\ a.col < b.col)

C19_PositionsStrictlyIncrease ==
  (pc = "returned" /\ calls = 1) =>
    \A k \in 1..(Len(result) - 1) : LocationBefore(result[k].loc, result[k + 1].loc)

C19_Witness ==
  /\ pc = "returned" /\ calls = 1
  /\ Len(result) >= 3
  /\ \E k \in DOMAIN result : result[k].payload.tag = "Number" /\ k > 1
  /\ \E k \in DOMAIN result : result[k].payload.tag = "String"
  /\ result[Len(result)].loc.row > 1

----------------------------------------------------------------------------
(* C20: on a source of single-byte characters every read of the source     *)
(* (the current byte, the one-ahead peek of lookup and eat_number, the     *)
(* end-of-line test) passes its bounds check, every literal payload is a   *)
(* slice [start, end) of the source with start <= end <= len(source), and  *)
(* a call fails only with InvalidCharacter or UnterminatedString.          *)

LiteralArms == {"string", "number"}

\* The payload pushed by iteration k is the slice [start, end) of the source.
PayloadIsSlice(k, start, end) ==
  /\ spans[k].from <= start /\ start <= end /\ end <= CodeLen
  /\ lexer.tokens[spans[k].ntok].payload.bytes = SubSeq(Code, start + 1, end)

C20_ReadsAndSlicesInBounds ==
  SingleByteSource(Code) =>
    /\ lexer.panic.kind \in {"none", "InvalidCharacter", "UnterminatedString"}
    /\ InLoop => index_in_bounds(lexer, lexer.current)
    /\ \A k \in DOMAIN spans :
         (spans[k].arm \in LiteralArms /\ spans[k].pushed = 1) =>
           \E start \in 0..CodeLen, end \in 0..CodeLen : PayloadIsSlice(k, start, end)

C20_Witness ==
  /\ pc = "returned"
  /\ SingleByteSource(Code)
  /\ \E k \in DOMAIN spans : spans[k].arm = "string" /\ spans[k].pushed = 1
  /\ LastSpan.arm = "number" /\ LastSpan.upto = CodeLen

====
